---- MODULE Spec2Model ----
(***************************************************************************)
(* A model of pywmm/coefficients.py: read_coefficients(instance) opens the *)
(* bundled WMM.COF file, scans it line by line and stores the spherical-   *)
(* harmonic coefficients in the caller's instance (epoch, defaultDate, c,  *)
(* cd).                                                                    *)
(*                                                                         *)
(* A line is a sequence of characters, a token a sequence of characters    *)
(* without whitespace.  A float is modelled by its value in tenths (the    *)
(* tokens of the model carry at most one fractional digit), so 2.5 is 25.  *)
(***************************************************************************)
EXTENDS Integers, Sequences, FiniteSets

\* Bounds of the model.
MaxLines == 3
Size == 3

VARIABLES file, exists, instance, pc, err, fopen, pos

vars == <<file, exists, instance, pc, err, fopen, pos>>

(***************************************************************************)
(* str.split(): the maximal runs of non-whitespace characters.             *)
(***************************************************************************)
Whitespace == {" ", "\t", "\n", "\r", "\f"}

RECURSIVE SplitFrom(_, _, _, _)
SplitFrom(line, i, cur, acc) ==
    IF i > Len(line)
    THEN IF cur = <<>> THEN acc ELSE Append(acc, cur)
    ELSE IF line[i] \in Whitespace
         THEN SplitFrom(line, i + 1, <<>>,
                        IF cur = <<>> THEN acc ELSE Append(acc, cur))
         ELSE SplitFrom(line, i + 1, Append(cur, line[i]), acc)

Split(line) == SplitFrom(line, 1, <<>>, <<>>)

(***************************************************************************)
(* int() and float() of a token: [ok, val]; ok = FALSE is ValueError.      *)
(***************************************************************************)
Digit == {"0", "1", "2", "3", "4", "5", "6", "7", "8", "9"}

DigitVal(ch) ==
    CASE ch = "0" -> 0 [] ch = "1" -> 1 [] ch = "2" -> 2 [] ch = "3" -> 3
      [] ch = "4" -> 4 [] ch = "5" -> 5 [] ch = "6" -> 6 [] ch = "7" -> 7
      [] ch = "8" -> 8 [] ch = "9" -> 9

IsDigits(s) == \A i \in 1..Len(s) : s[i] \in Digit

RECURSIVE DigitsValue(_)
DigitsValue(s) ==
    IF s = <<>> THEN 0
    ELSE 10 * DigitsValue(SubSeq(s, 1, Len(s) - 1)) + DigitVal(s[Len(s)])

HasSign(tok) == Len(tok) > 0 /\ tok[1] \in {"-", "+"}

Unsigned(tok) == IF HasSign(tok) THEN Tail(tok) ELSE tok

SignOf(tok) == IF Len(tok) > 0 /\ tok[1] = "-" THEN -1 ELSE 1

ParseInt(tok) ==
    LET body == Unsigned(tok)
    IN  IF Len(body) > 0 /\ IsDigits(body)
        THEN [ok |-> TRUE, val |-> SignOf(tok) * DigitsValue(body)]
        ELSE [ok |-> FALSE, val |-> 0]

\* The value is in tenths: the integer part times ten plus the first
\* fractional digit.
ParseFloat(tok) ==
    LET body == Unsigned(tok)
        dots == {i \in 1..Len(body) : body[i] = "."}
        d    == IF dots = {} THEN Len(body) + 1 ELSE CHOOSE i \in dots : TRUE
        ip   == SubSeq(body, 1, d - 1)
        fp   == SubSeq(body, d + 1, Len(body))
    IN  IF Cardinality(dots) <= 1 /\ IsDigits(ip) /\ IsDigits(fp)
           /\ Len(ip) + Len(fp) > 0
        THEN [ok |-> TRUE,
              val |-> SignOf(tok) * (10 * DigitsValue(ip)
                         + (IF fp = <<>> THEN 0 ELSE DigitVal(fp[1])))]
        ELSE [ok |-> FALSE, val |-> 0]

(***************************************************************************)
(* The instance and Python's indexing of its arrays.                       *)
(***************************************************************************)
Index == 0..(Size - 1)

InBounds(k) == -Size <= k /\ k <= Size - 1

Resolve(k) == IF k < 0 THEN k + Size ELSE k

\* arr[i][j] = v: [ok, arr]; ok = FALSE is IndexError, arr untouched.
Store(arr, i, j, v) ==
    IF InBounds(i) /\ InBounds(j)
    THEN [ok |-> TRUE, arr |-> [arr EXCEPT ![Resolve(i)][Resolve(j)] = v]]
    ELSE [ok |-> FALSE, arr |-> arr]

\* The result of one loop iteration.
Continue(inst) == [ctl |-> "continue", err |-> "none", inst |-> inst]
Raise(e, inst) == [ctl |-> "raise", err |-> e, inst |-> inst]

Break(inst) == [ctl |-> "break", err |-> "none", inst |-> inst]

(***************************************************************************)
(* The loop body of read_coefficients.                                     *)
(***************************************************************************)
\* Faulty variant: a blank line ends the scan too (len(parts) <= 1).
BranchBlankEnds(parts) ==
    IF Len(parts) <= 1 THEN "sentinel"
    ELSE IF Len(parts) = 3 THEN "header"
    ELSE "coefficient"

\* The branch a line takes, from its token count.
Branch(parts) ==
    IF Len(parts) = 1 THEN "sentinel"
    ELSE IF Len(parts) = 3 THEN "header"
    ELSE "coefficient"

\* Faulty variant: continue in place of break.
SentinelEffectContinue(inst) == Continue(inst)

\* len(parts) == 1: break.
SentinelEffect(inst) == Break(inst)

\* Faulty variant: defaultDate from the epoch the instance held before.
HeaderEffectStaleEpoch(inst, parts) ==
    LET e == ParseFloat(parts[1])
    IN  IF ~e.ok THEN Raise("ValueError", inst)
        ELSE Continue([inst EXCEPT !.epoch = e.val,
                                   !.defaultDate = inst.epoch + 25])

\* len(parts) == 3: epoch = float(parts[0]); defaultDate = epoch + 2.5.
HeaderEffect(inst, parts) ==
    LET e == ParseFloat(parts[1])
    IN  IF ~e.ok THEN Raise("ValueError", inst)
        ELSE Continue([inst EXCEPT !.epoch = e.val,
                                   !.defaultDate = e.val + 25])

\* The conversions of the coefficient branch, in the order of the code.
FieldKinds == <<"int", "int", "float", "float", "float", "float">>

ParseField(kind, tok) == IF kind = "int" THEN ParseInt(tok) ELSE ParseFloat(tok)

\* The first failure among the conversions k, k+1, ...: parts[k-1] raises
\* IndexError when the token is missing, int()/float() ValueError.
RECURSIVE ConvertFrom(_, _)
ConvertFrom(parts, k) ==
    IF k > Len(FieldKinds) THEN "none"
    ELSE IF Len(parts) < k THEN "IndexError"
    ELSE IF ~ParseField(FieldKinds[k], parts[k]).ok THEN "ValueError"
    ELSE ConvertFrom(parts, k + 1)

Fields(parts) ==
    [k \in 1..Len(FieldKinds) |-> ParseField(FieldKinds[k], parts[k]).val]

\* Faulty variant: the comparison turned around.
GuardSwapped(n, m) == n <= m

\* if m <= n:
Guard(n, m) == m <= n

\* Faulty variant: the h term stored for every order.
HasCompanionAlways(m) == TRUE

\* if m != 0:
HasCompanion(m) == m # 0

\* Faulty variant: the h term in column m.
CompanionColumnUnshifted(m) == m

\* The column of the h term: c[n][m - 1].
CompanionColumn(m) == m - 1

\* The four assignments, in order; an IndexError keeps what was assigned
\* before it.
WriteCoefficient(inst, n, m, gnm, hnm, dgnm, dhnm) ==
    LET s1 == Store(inst.c, m, n, gnm)
        i1 == [inst EXCEPT !.c = s1.arr]
        s2 == Store(i1.cd, m, n, dgnm)
        i2 == [i1 EXCEPT !.cd = s2.arr]
        s3 == Store(i2.c, n, CompanionColumn(m), hnm)
        i3 == [i2 EXCEPT !.c = s3.arr]
        s4 == Store(i3.cd, n, CompanionColumn(m), dhnm)
        i4 == [i3 EXCEPT !.cd = s4.arr]
    IN  IF ~s1.ok THEN Raise("IndexError", inst)
        ELSE IF ~s2.ok THEN Raise("IndexError", i1)
        ELSE IF ~HasCompanion(m) THEN Continue(i2)
        ELSE IF ~s3.ok THEN Raise("IndexError", i2)
        ELSE IF ~s4.ok THEN Raise("IndexError", i3)
        ELSE Continue(i4)

\* Faulty variant: a line that does not convert is passed over.
CoefficientEffectSkipsBad(inst, parts) ==
    LET e == ConvertFrom(parts, 1)
        f == Fields(parts)
    IN  IF e = "ValueError" THEN Continue(inst)
        ELSE IF e # "none" THEN Raise(e, inst)
        ELSE IF Guard(f[1], f[2])
             THEN WriteCoefficient(inst, f[1], f[2], f[3], f[4], f[5], f[6])
             ELSE Continue(inst)

\* The coefficient branch: the six conversions, then the guarded writes.
CoefficientEffect(inst, parts) ==
    LET e == ConvertFrom(parts, 1)
        f == Fields(parts)
    IN  IF e # "none" THEN Raise(e, inst)
        ELSE IF Guard(f[1], f[2])
             THEN WriteCoefficient(inst, f[1], f[2], f[3], f[4], f[5], f[6])
             ELSE Continue(inst)

\* Faulty variant: close() after the loop, skipped by an exception.
FileOpenAfterNoFinally(ctl) == ctl \in {"continue", "raise"}

\* The with statement: the file stays open only while the loop goes on.
FileOpenAfter(ctl) == ctl = "continue"

PcAfter(ctl) ==
    CASE ctl = "continue" -> "loop"
      [] ctl = "break" -> "returned"
      [] ctl = "raise" -> "raised"

(***************************************************************************)
(* The files of the model.                                                 *)
(***************************************************************************)
RECURSIVE Join(_)
Join(toks) ==
    IF toks = <<>> THEN <<"\n">>
    ELSE toks[1] \o (IF Len(toks) = 1 THEN <<>> ELSE <<" ">>) \o Join(Tail(toks))

\* As WMM.COF sets its coefficient lines: indented, columns apart.
RECURSIVE JoinWide(_)
JoinWide(toks) ==
    IF toks = <<>> THEN <<"\n">>
    ELSE <<" ", " ">> \o toks[1] \o JoinWide(Tail(toks))

tEpoch == <<"2", "0", "2", "0", ".", "0">>
tName == <<"W", "M", "M">>
tDate == <<"1", "2", "/", "1", "0">>
tEnd == <<"9", "9", "9", "9">>
t0 == <<"0">>
t1 == <<"1">>
t2 == <<"2">>
t9 == <<"9">>
tNeg1 == <<"-", "1">>
tNegSize == <<"-", "3">>
tOneDot == <<"1", ".", "0">>
fA == <<"-", "2", ".", "5">>
fB == <<"0", ".", "0">>
fC == <<"6", ".", "7">>
fD == <<"4", ".", "9">>
fE == <<"7">>
fF == <<"+", "1", ".">>
fG == <<".", "5">>
fH == <<"-", "8", ".", "1">>

LineSet ==
    { tEpoch \o <<"\t">> \o tName \o <<" ", " ">> \o tDate \o <<"\n">>,
      Join(<<fE, t1, t0>>),
      Join(<<tName, tName, tDate>>),
      JoinWide(<<t1, t0, fA, fB, fC, fB>>),
      JoinWide(<<t1, t1, fD, fE, fC, fA>>),
      Join(<<t1, t1, fE, fF, fG, fH>>),
      JoinWide(<<t2, t2, fF, fG, fH, fD>>),
      Join(<<t1, t2, fH, fC, fD, fE>>),
      Join(<<tEnd>>),
      <<"\n">>,
      Join(<<t1, t0>>),
      Join(<<t1, t0, fA, fB>>),
      Join(<<t1, t0, fA, fB, fC>>),
      Join(<<t2, t0, fG, fA, fE, fC, tName>>),
      Join(<<tOneDot, t1, fA, fB, fC, fD>>),
      Join(<<t1, t1, fA, tName, fC, fD>>),
      Join(<<t9, t0, fA, fB, fC, fD>>),
      Join(<<t0, tNegSize, fA, fB, fC, fD>>),
      Join(<<t0, tNeg1, fD, fC, fB, fA>>) }

RECURSIVE SeqsUpTo(_, _)
SeqsUpTo(S, k) ==
    IF k = 0 THEN {<<>>}
    ELSE LET shorter == SeqsUpTo(S, k - 1)
         IN  shorter \cup {Append(s, x) : s \in shorter, x \in S}

Files == SeqsUpTo(LineSet, MaxLines)

\* The instance as the caller hands it over: the arrays allocated, their
\* content the caller's (here no two cells alike, so that every write shows).
Fresh ==
    [epoch |-> -1, defaultDate |-> -1,
     c |-> [i \in Index |-> [j \in Index |-> -(100 + 10 * i + j)]],
     cd |-> [i \in Index |-> [j \in Index |-> -(200 + 10 * i + j)]]]

(***************************************************************************)
(* The state machine.                                                      *)
(***************************************************************************)
Init ==
    /\ exists \in BOOLEAN
    /\ file \in (IF exists THEN Files ELSE {<<>>})
    /\ instance = Fresh
    /\ pc = "start"
    /\ err = "none"
    /\ fopen = FALSE
    /\ pos = 0

\* open(file_path, "r") succeeds.
OpenFile ==
    /\ pc = "start"
    /\ exists
    /\ pc' = "loop"
    /\ fopen' = TRUE
    /\ UNCHANGED <<file, exists, instance, err, pos>>

\* Faulty variant: the instance is reset before the file is opened.
OpenFailsAfterReset ==
    /\ pc = "start"
    /\ ~exists
    /\ pc' = "raised"
    /\ err' = "OSError"
    /\ instance' = [instance EXCEPT !.epoch = 0, !.defaultDate = 0]
    /\ UNCHANGED <<file, exists, fopen, pos>>

\* open(file_path, "r") raises.
OpenFails ==
    /\ pc = "start"
    /\ ~exists
    /\ pc' = "raised"
    /\ err' = "OSError"
    /\ UNCHANGED <<file, exists, instance, fopen, pos>>

Line == file[pos + 1]

Parts == Split(Line)

\* One iteration, with the result r of its branch.
Iterate(r) ==
    /\ instance' = r.inst
    /\ err' = r.err
    /\ pc' = PcAfter(r.ctl)
    /\ fopen' = FileOpenAfter(r.ctl)
    /\ pos' = pos + 1
    /\ UNCHANGED <<file, exists>>

ReadSentinel ==
    /\ pc = "loop"
    /\ pos < Len(file)
    /\ Branch(Parts) = "sentinel"
    /\ Iterate(SentinelEffect(instance))

ReadHeader ==
    /\ pc = "loop"
    /\ pos < Len(file)
    /\ Branch(Parts) = "header"
    /\ Iterate(HeaderEffect(instance, Parts))

ReadCoefficient ==
    /\ pc = "loop"
    /\ pos < Len(file)
    /\ Branch(Parts) = "coefficient"
    /\ Iterate(CoefficientEffect(instance, Parts))

\* The file is exhausted: the loop and the with block end.
EndOfFile ==
    /\ pc = "loop"
    /\ pos = Len(file)
    /\ pc' = "returned"
    /\ fopen' = FALSE
    /\ UNCHANGED <<file, exists, instance, err, pos>>

Next ==
    \/ OpenFile
    \/ OpenFails
    \/ ReadSentinel
    \/ ReadHeader
    \/ ReadCoefficient
    \/ EndOfFile

Spec == Init /\ [][Next]_vars

(***************************************************************************)
(* Vocabulary of the properties.                                           *)
(***************************************************************************)
\* The loop is about to read a line.
AtLine == pc = "loop" /\ pos < Len(file)

\* The six leading tokens of a line all convert.
Converts(parts) ==
    /\ Len(parts) >= 6
    /\ ParseInt(parts[1]).ok /\ ParseInt(parts[2]).ok
    /\ \A k \in 3..6 : ParseFloat(parts[k]).ok

\* The record of a line that converts.
Rec(parts) ==
    [n |-> ParseInt(parts[1]).val, m |-> ParseInt(parts[2]).val,
     gnm |-> ParseFloat(parts[3]).val, hnm |-> ParseFloat(parts[4]).val,
     dgnm |-> ParseFloat(parts[5]).val, dhnm |-> ParseFloat(parts[6]).val]

\* The cells c[m][n] and c[n][m-1] of a record, as <<row, column>>.
GCell(r) == <<Resolve(r.m), Resolve(r.n)>>
HCell(r) == <<Resolve(r.n), Resolve(r.m - 1)>>

\* No assignment of the record raises IndexError.
Indexable(r) ==
    InBounds(r.m) /\ InBounds(r.n) /\ (r.m # 0 => InBounds(r.m - 1))

\* C1: a coefficient line with m <= n whose indices the arrays hold sets
\* c[m][n] = gnm and cd[m][n] = dgnm, and when m # 0 also c[n][m-1] = hnm and
\* cd[n][m-1] = dhnm; every other cell, epoch and defaultDate are unchanged.
C1_CoefficientLineWrites ==
    [][ (AtLine /\ Len(Parts) \notin {1, 3} /\ Converts(Parts)
           /\ Rec(Parts).m <= Rec(Parts).n /\ Indexable(Rec(Parts)))
        => LET r == Rec(Parts)
               touched == {GCell(r)} \cup (IF r.m # 0 THEN {HCell(r)} ELSE {})
           IN  /\ instance'.c[GCell(r)[1]][GCell(r)[2]] = r.gnm
               /\ instance'.cd[GCell(r)[1]][GCell(r)[2]] = r.dgnm
               /\ r.m # 0 => /\ instance'.c[HCell(r)[1]][HCell(r)[2]] = r.hnm
                             /\ instance'.cd[HCell(r)[1]][HCell(r)[2]] = r.dhnm
               /\ \A i, j \in Index :
                     <<i, j>> \notin touched
                        => /\ instance'.c[i][j] = instance.c[i][j]
                           /\ instance'.cd[i][j] = instance.cd[i][j]
               /\ instance'.epoch = instance.epoch
               /\ instance'.defaultDate = instance.defaultDate
               /\ pc' = "loop" ]_vars

\* The line "1 1 4.9 7 6.7 -2.5" has been read into the fresh instance.
C1_Witness ==
    /\ pc = "loop" /\ pos = 1
    /\ Split(file[1]) = <<t1, t1, fD, fE, fC, fA>>
    /\ instance.c[1][1] = 49 /\ instance.cd[1][1] = 67
    /\ instance.c[1][0] = 70 /\ instance.cd[1][0] = -25
    /\ instance.c[0][1] = Fresh.c[0][1]

\* C2: a three-token line whose first token is a number sets epoch to it and
\* defaultDate to epoch + 2.5, and leaves c and cd alone.
C2_HeaderLine ==
    [][ (AtLine /\ Len(Parts) = 3 /\ ParseFloat(Parts[1]).ok)
        => /\ instance'.epoch = ParseFloat(Parts[1]).val
           /\ instance'.defaultDate = ParseFloat(Parts[1]).val + 25
           /\ instance'.c = instance.c
           /\ instance'.cd = instance.cd
           /\ pc' = "loop" ]_vars

\* The header "2020.0 WMM 12/10" has been read.
C2_Witness ==
    /\ pc = "loop" /\ pos = 1
    /\ Split(file[1]) = <<tEpoch, tName, tDate>>
    /\ instance.epoch = 20200 /\ instance.defaultDate = 20225
    /\ instance.c = Fresh.c /\ instance.cd = Fresh.cd

\* Line k of the file holds exactly one token.
OneToken(k) == Len(Split(file[k])) = 1

HasSentinel == \E k \in 1..Len(file) : OneToken(k)

FirstSentinel ==
    CHOOSE k \in 1..Len(file) : OneToken(k) /\ \A j \in 1..(k - 1) : ~OneToken(j)

\* The lines ahead of the first one-token line (all of them, without one).
Loaded ==
    IF HasSentinel THEN SubSeq(file, 1, FirstSentinel - 1) ELSE file

\* The instance after the given header and coefficient lines, one by one.
RECURSIVE Replay(_, _)
Replay(inst, lines) ==
    IF lines = <<>> THEN inst
    ELSE LET parts == Split(lines[1])
             r == IF Len(parts) = 3 THEN HeaderEffect(inst, parts)
                  ELSE CoefficientEffect(inst, parts)
         IN  Replay(r.inst, Tail(lines))

\* C3: once the first one-token line is read the load has returned, at that
\* line, with the instance the lines ahead of it produce: no later line is
\* read.
C3_SentinelStops ==
    (\E k \in 1..pos : OneToken(k))
        => /\ pc = "returned"
           /\ err = "none"
           /\ pos = FirstSentinel
           /\ instance = Replay(Fresh, Loaded)

\* "1 0 -2.5 0.0 6.7 0.0", the sentinel, then "1 1 4.9 7 6.7 -2.5", unread.
C3_Witness ==
    /\ pc = "returned" /\ pos = 2 /\ Len(file) = 3
    /\ Split(file[1]) = <<t1, t0, fA, fB, fC, fB>>
    /\ Split(file[2]) = <<tEnd>>
    /\ Split(file[3]) = <<t1, t1, fD, fE, fC, fA>>
    /\ instance.c[0][1] = -25
    /\ instance.c[1][1] = Fresh.c[1][1]

\* C4: a coefficient line with m > n raises nothing and changes nothing, and
\* the loop goes on to the next line.
C4_OrderAboveDegreeSkipped ==
    [][ (AtLine /\ Len(Parts) \notin {1, 3} /\ Converts(Parts)
           /\ Rec(Parts).m > Rec(Parts).n)
        => /\ instance' = instance
           /\ err' = "none"
           /\ pc' = "loop"
           /\ pos' = pos + 1 ]_vars

\* "1 2 ..." was skipped and the line after it, "1 0 ...", was stored.
C4_Witness ==
    /\ pc = "loop" /\ pos = 2
    /\ Split(file[1]) = <<t1, t2, fH, fC, fD, fE>>
    /\ Split(file[2]) = <<t1, t0, fA, fB, fC, fB>>
    /\ instance.c[0][1] = -25
    /\ instance.c[2][1] = Fresh.c[2][1] /\ instance.c[1][0] = Fresh.c[1][0]

\* C5: when the file cannot be opened the call raises the file-access error
\* and the instance is as the caller handed it over.
C5_OpenFailureLeavesInstance ==
    (~exists /\ pc # "start")
        => /\ pc = "raised"
           /\ err = "OSError"
           /\ instance = Fresh
           /\ ~fopen

C5_Witness ==
    /\ ~exists /\ pc = "raised" /\ err = "OSError"
    /\ instance = Fresh /\ ~fopen /\ pos = 0

\* The first failure of a line is a conversion: the header's first token, or
\* token k of a coefficient line whose tokens before k convert.
HeaderFails(parts) == Len(parts) = 3 /\ ~ParseFloat(parts[1]).ok

TokenConverts(parts, k) ==
    IF k <= 2 THEN ParseInt(parts[k]).ok ELSE ParseFloat(parts[k]).ok

CoefficientFails(parts) ==
    /\ Len(parts) \notin {1, 3}
    /\ \E k \in 1..6 :
          /\ Len(parts) >= k
          /\ ~TokenConverts(parts, k)
          /\ \A j \in 1..(k - 1) : TokenConverts(parts, j)

\* C6: a token that does not convert ends the load with ValueError, the
\* line having written nothing, and nothing is read after the error.
C6_ConversionErrorAborts ==
    [][ /\ pc # "raised"
        /\ (AtLine /\ (HeaderFails(Parts) \/ CoefficientFails(Parts)))
              => /\ pc' = "raised"
                 /\ err' = "ValueError"
                 /\ instance' = instance ]_vars

\* "1 0 ..." was stored, "1 1 -2.5 WMM ..." raised, a third line is unread.
C6_Witness ==
    /\ pc = "raised" /\ err = "ValueError" /\ pos = 2 /\ Len(file) = 3
    /\ Split(file[2]) = <<t1, t1, fA, tName, fC, fD>>
    /\ instance.c[0][1] = -25 /\ instance # Fresh
    /\ instance.c[1][1] = Fresh.c[1][1]

\* C7: the file is open while the loop runs and closed in every state in
\* which the call has ended.
C7_FileClosedOnExit ==
    /\ pc \in {"returned", "raised"} => ~fopen
    /\ pc = "loop" => fopen

\* An exception in the middle of the file, and the file is closed.
C7_Witness ==
    /\ pc = "raised" /\ err \in {"ValueError", "IndexError"}
    /\ pos = 2 /\ Len(file) = 3 /\ ~fopen

\* C9: a line of neither one nor three tokens is a coefficient record: with
\* fewer than six tokens it raises IndexError or ValueError, with more than
\* six it does what its first six tokens do.
C9_OtherTokenCounts ==
    [][ (AtLine /\ Len(Parts) \notin {1, 3})
        => /\ Len(Parts) < 6
                => /\ pc' = "raised"
                   /\ err' \in {"IndexError", "ValueError"}
                   /\ instance' = instance
           /\ Len(Parts) > 6
                => LET r == CoefficientEffect(instance, SubSeq(Parts, 1, 6))
                   IN  /\ instance' = r.inst
                       /\ err' = r.err
                       /\ pc' = PcAfter(r.ctl) ]_vars

\* The seven-token line "2 0 .5 -2.5 7 6.7 WMM" was stored, then a blank
\* line raised IndexError.
C9_Witness ==
    /\ pc = "raised" /\ err = "IndexError" /\ pos = 2
    /\ Len(Split(file[1])) = 7 /\ Split(file[2]) = <<>>
    /\ instance.c[0][2] = 5 /\ instance.cd[0][2] = 70

\* The lines that were read, parsed: whether a line is a coefficient line,
\* whether it converts, and its record.
ParsedLoaded ==
    LET lines == Loaded
    IN  [i \in 1..Len(lines) |->
            LET parts == Split(lines[i])
            IN  [coef |-> Len(parts) # 3,
                 ok   |-> Converts(parts),
                 rec  |-> IF Converts(parts) THEN Rec(parts) ELSE <<>>]]

\* The coefficient lines among them that were stored (m <= n).
StoredIn(ps) ==
    {i \in DOMAIN ps : ps[i].coef /\ ps[i].ok /\ ps[i].rec.m <= ps[i].rec.n}

\* Every coefficient line read converts, and those stored have
\* 0 <= m <= n < size.
WithinModel(ps) ==
    /\ \A i \in DOMAIN ps : ps[i].coef => ps[i].ok
    /\ \A i \in StoredIn(ps) : 0 <= ps[i].rec.m /\ ps[i].rec.n < Size

Latest(S) == CHOOSE i \in S : \A j \in S : j <= i

\* C10: after a load of records with 0 <= m <= n < size, a cell on or above
\* the diagonal holds the g term of the last record with (m, n) = (row,
\* column), a cell below it the h term of the last record with (n, m - 1) =
\* (row, column), and a cell no record names is as it was.
C10_PackingNeverCollides ==
    pc = "returned"
        => LET ps == ParsedLoaded
               stored == StoredIn(ps)
           IN  WithinModel(ps)
                 => \A row, col \in Index :
                      LET hits ==
                            IF row <= col
                            THEN {i \in stored : ps[i].rec.m = row
                                                   /\ ps[i].rec.n = col}
                            ELSE {i \in stored : ps[i].rec.m # 0
                                                   /\ ps[i].rec.n = row
                                                   /\ ps[i].rec.m - 1 = col}
                      IN  IF hits = {}
                          THEN /\ instance.c[row][col] = Fresh.c[row][col]
                               /\ instance.cd[row][col] = Fresh.cd[row][col]
                          ELSE LET r == ps[Latest(hits)].rec
                               IN  IF row <= col
                                   THEN /\ instance.c[row][col] = r.gnm
                                        /\ instance.cd[row][col] = r.dgnm
                                   ELSE /\ instance.c[row][col] = r.hnm
                                        /\ instance.cd[row][col] = r.dhnm

\* Two records with (n, m) = (1, 1), then (2, 2): the second (1, 1) record
\* stands, g on the diagonal and h beside it.
C10_Witness ==
    /\ pc = "returned" /\ pos = 3 /\ WithinModel(ParsedLoaded)
    /\ Split(file[1]) = <<t1, t1, fD, fE, fC, fA>>
    /\ Split(file[2]) = <<t1, t1, fE, fF, fG, fH>>
    /\ Split(file[3]) = <<t2, t2, fF, fG, fH, fD>>
    /\ instance.c[1][1] = 70 /\ instance.c[1][0] = 10
    /\ instance.c[2][2] = 10 /\ instance.c[2][1] = 5
    /\ instance.cd[2][1] = 49

====
